---- MODULE Spec2Model ----
(***************************************************************************)
(* LSM303DLHC driver (src/src/lib.rs, accel.rs, mag.rs) as a state machine. *)
(*                                                                         *)
(* The driver owns a blocking I2C transport and talks to two sub-devices,  *)
(* the accelerometer and the magnetometer.  Every public method is one     *)
(* action; the transactions a call puts on the bus are recorded in `bus`,  *)
(* what the call returned in `ret`.  The transport may fail any            *)
(* transaction; the chip behind it keeps the last byte written to each of  *)
(* its configuration registers and answers reads of its output registers   *)
(* with sensor data.                                                       *)
(***************************************************************************)
EXTENDS Integers, Sequences, FiniteSets, TLC

(***************************************************************************)
(* Bounds of the model.                                                    *)
(***************************************************************************)
\* Number of distinct transport errors (the opaque error type E).
NumErrors == 2

\* A transaction's outcome: 0 is success, 1..NumErrors the transport errors.
Outcome == 0..NumErrors
IsOk(o) == o = 0

\* What the transport does to the k transactions a call may issue: all
\* succeed, or the j-th fails with error e.  A call stops at its first failed
\* transaction, so the outcomes after it are never drawn (written 0 here).
Outcomes(k) ==
    { [i \in 1..k |-> 0] }
    \cup { [i \in 1..k |-> IF i = j THEN e ELSE 0] : j \in 1..k, e \in 1..NumErrors }

Byte == 0..255

(***************************************************************************)
(* Integer arithmetic of the source: u8, u16, i16.                         *)
(***************************************************************************)
RECURSIVE BitAndN(_, _, _)
BitAndN(a, b, n) ==
    IF n = 0 THEN 0
    ELSE ((a % 2) * (b % 2)) + 2 * BitAndN(a \div 2, b \div 2, n - 1)

RECURSIVE BitOrN(_, _, _)
BitOrN(a, b, n) ==
    IF n = 0 THEN 0
    ELSE (IF (a % 2) + (b % 2) > 0 THEN 1 ELSE 0)
         + 2 * BitOrN(a \div 2, b \div 2, n - 1)

RECURSIVE Pow2(_)
Pow2(n) == IF n = 0 THEN 1 ELSE 2 * Pow2(n - 1)

\* u8 operators: & | ! <<
And8(a, b) == BitAndN(a, b, 8)
Or8(a, b) == BitOrN(a, b, 8)
Not8(a) == 255 - a
Shl8(a, n) == (a * Pow2(n)) % 256

\* cast::u16 of a u8: widening, the value is kept
u16(b) == b
\* u16 operators: + (wrapping in release builds, panics in debug builds on
\* overflow; Add16Overflows tells which sums would) and <<
Add16(a, b) == (a + b) % 65536
Add16Overflows(a, b) == a + b > 65535
Shl16(a, n) == (a * Pow2(n)) % 65536
\* `as i16` of a u16: the same 16 bits read as two's complement
AsI16(u) == IF u >= 32768 THEN u - 65536 ELSE u
\* Mutation of Sar16: a logical shift, zeros enter from the left
Sar16_logical(x, n) ==
    LET bits == IF x < 0 THEN x + 65536 ELSE x
    IN AsI16(bits \div Pow2(n))

\* >> on an i16: arithmetic shift, the sign bit is copied into the vacated bits
Sar16(x, n) ==
    LET bits == IF x < 0 THEN x + 65536 ELSE x
        fill == IF x < 0 THEN 65536 - Pow2(16 - n) ELSE 0
    IN AsI16((bits \div Pow2(n)) + fill)

(***************************************************************************)
(* Register maps (accel.rs, mag.rs) and the enumerations of lib.rs.        *)
(***************************************************************************)
\* accel::ADDRESS = 0b0011001
accel_ADDRESS == 25
\* mag::ADDRESS = 0b0011110
mag_ADDRESS == 30

\* accel::Register, the registers the driver uses (addr() is `*self as u8`)
CTRL_REG1_A == 32
CTRL_REG4_A == 35
OUT_X_L_A == 40

\* mag::Register, the registers the driver uses
CRA_REG_M == 0
MR_REG_M == 2
OUT_X_H_M == 3
TEMP_OUT_H_M == 49
TEMP_OUT_L_M == 50

\* const MULTI: u8 = 1 << 7
MULTI == Shl8(1, 7)

AccelOdr == {"Hz1", "Hz10", "Hz25", "Hz50", "Hz100", "Hz200", "Hz400"}
\* `odr as u8` of an AccelOdr: its explicit discriminant
AccelOdr_as_u8(odr) ==
    CASE odr = "Hz1" -> 1
      [] odr = "Hz10" -> 2
      [] odr = "Hz25" -> 3
      [] odr = "Hz50" -> 4
      [] odr = "Hz100" -> 5
      [] odr = "Hz200" -> 6
      [] odr = "Hz400" -> 7

MagOdr == {"Hz0_75", "Hz1_5", "Hz3", "Hz7_5", "Hz15", "Hz30", "Hz75", "Hz220"}
\* `odr as u8` of a MagOdr: its explicit discriminant
MagOdr_as_u8(odr) ==
    CASE odr = "Hz0_75" -> 0
      [] odr = "Hz1_5" -> 1
      [] odr = "Hz3" -> 2
      [] odr = "Hz7_5" -> 3
      [] odr = "Hz15" -> 4
      [] odr = "Hz30" -> 5
      [] odr = "Hz75" -> 6
      [] odr = "Hz220" -> 7

Sensitivity == {"G1", "G2", "G4", "G12"}
\* Sensitivity::value: `*self as u8`, the implicit discriminants 0, 1, 2, 3
\* in declaration order
Sensitivity_value(s) ==
    CASE s = "G1" -> 0
      [] s = "G2" -> 1
      [] s = "G4" -> 2
      [] s = "G12" -> 3

(***************************************************************************)
(* The chip behind the transport.  Each sub-device keeps the last byte     *)
(* written to a configuration register and returns it on a single-byte     *)
(* read; every other read returns the sensor data of the moment.  The      *)
(* accelerometer takes bit 7 of the sub-address as its auto-increment flag *)
(* and bits 0-6 as the register.                                           *)
(***************************************************************************)
AccelConfigRegs == {CTRL_REG1_A, CTRL_REG4_A}
MagConfigRegs == {CRA_REG_M, MR_REG_M}

ChipPointer(addr, sub) == IF addr = accel_ADDRESS THEN sub % 128 ELSE sub

ChipWrite(c, addr, bytes) ==
    LET ptr == ChipPointer(addr, bytes[1])
    IN IF addr = accel_ADDRESS /\ ptr \in AccelConfigRegs
       THEN [c EXCEPT !.accel[ptr] = bytes[2]]
       ELSE IF addr = mag_ADDRESS /\ ptr \in MagConfigRegs
       THEN [c EXCEPT !.mag[ptr] = bytes[2]]
       ELSE c

ChipRead(c, addr, sub, n, data) ==
    LET ptr == ChipPointer(addr, sub)
    IN IF n = 1 /\ addr = accel_ADDRESS /\ ptr \in AccelConfigRegs
       THEN <<c.accel[ptr]>>
       ELSE IF n = 1 /\ addr = mag_ADDRESS /\ ptr \in MagConfigRegs
       THEN <<c.mag[ptr]>>
       ELSE data

(***************************************************************************)
(* The transport (hal::blocking::i2c::Write and WriteRead).  A context c   *)
(* is [accel, mag, bus]: the two register files and the transactions       *)
(* issued so far by the call under way.  o is the outcome the transport    *)
(* gives the transaction; a failed one has no effect on the chip and       *)
(* returns no data.                                                        *)
(***************************************************************************)
\* The content of a buffer nothing was read into (mem::MaybeUninit).  The
\* driver reads a buffer only after a write_read that succeeded, which has
\* filled all of it; the bytes of an unfilled buffer are never looked at.
Uninit == <<>>

i2c_write(c, addr, bytes, o) ==
    LET t == [kind |-> "write", addr |-> addr, out |-> bytes, n |-> 0,
              in |-> <<>>, res |-> o]
        c1 == IF IsOk(o) THEN ChipWrite(c, addr, bytes) ELSE c
    IN [c |-> [c1 EXCEPT !.bus = Append(@, t)], res |-> o, val |-> "unit"]

i2c_write_read(c, addr, bytes, n, o, data) ==
    LET buf == IF IsOk(o) THEN ChipRead(c, addr, bytes[1], n, data) ELSE Uninit
        t == [kind |-> "write_read", addr |-> addr, out |-> bytes, n |-> n,
              in |-> buf, res |-> o]
    IN [c |-> [c EXCEPT !.bus = Append(@, t)], res |-> o, val |-> buf]

\* `?` on an Err: the function returns the error at once
Err(r) == [c |-> r.c, res |-> r.res, val |-> "none"]
\* buffer[i], zero-based as in the source
At(buffer, i) == buffer[i + 1]

(***************************************************************************)
(* Register access (lib.rs, lines 112-178).                                *)
(***************************************************************************)
write_accel_register(c, reg, byte, o) ==
    i2c_write(c, accel_ADDRESS, <<reg, byte>>, o)

write_mag_register(c, reg, byte, o) ==
    i2c_write(c, mag_ADDRESS, <<reg, byte>>, o)

\* Mutation of read_accel_registers: MULTI only on a burst
read_accel_registers_multi_on_burst(c, reg, N, o, data) ==
    LET sub == IF N > 1 THEN Or8(reg, MULTI) ELSE reg
        r == i2c_write_read(c, accel_ADDRESS, <<sub>>, N, o, data)
    IN IF IsOk(r.res) THEN r ELSE Err(r)

read_accel_registers(c, reg, N, o, data) ==
    LET r == i2c_write_read(c, accel_ADDRESS, <<Or8(reg, MULTI)>>, N, o, data)
    IN IF IsOk(r.res) THEN r ELSE Err(r)

read_accel_register(c, reg, o, data) ==
    LET r == read_accel_registers(c, reg, 1, o, data)
    IN IF IsOk(r.res) THEN [r EXCEPT !.val = At(@, 0)] ELSE r

read_mag_registers(c, reg, N, o, data) ==
    LET r == i2c_write_read(c, mag_ADDRESS, <<reg>>, N, o, data)
    IN IF IsOk(r.res) THEN r ELSE Err(r)

read_mag_register(c, reg, o, data) ==
    LET r == read_mag_registers(c, reg, 1, o, data)
    IN IF IsOk(r.res) THEN [r EXCEPT !.val = At(@, 0)] ELSE r

(***************************************************************************)
(* The closures the setters hand to modify_*_register.  A closure is the   *)
(* record [fn, env]: the method that made it and the value it captured;    *)
(* CallOnce(f, r) is f(r).                                                 *)
(***************************************************************************)
\* Mutation of accel_odr_closure: the field is not cleared first
accel_odr_closure_no_clear(odr, r) == Or8(r, Shl8(AccelOdr_as_u8(odr), 4))

\* |r| r & !(0b1111 << 4) | ((odr as u8) << 4)
accel_odr_closure(odr, r) ==
    Or8(And8(r, Not8(Shl8(15, 4))), Shl8(AccelOdr_as_u8(odr), 4))

\* Mutation of mag_odr_closure: the code is shifted to bit 3
mag_odr_closure_shift3(odr, r) ==
    Or8(And8(r, Not8(Shl8(7, 2))), Shl8(MagOdr_as_u8(odr), 3))

\* |r| r & !(0b111 << 2) | ((odr as u8) << 2)
mag_odr_closure(odr, r) ==
    Or8(And8(r, Not8(Shl8(7, 2))), Shl8(MagOdr_as_u8(odr), 2))

\* |r| r & !(0b11 << 4) | (sensitivity.value() << 4)
set_accel_sensitivity_closure(sensitivity, r) ==
    Or8(And8(r, Not8(Shl8(3, 4))), Shl8(Sensitivity_value(sensitivity), 4))

CallOnce(f, r) ==
    CASE f.fn = "accel_odr" -> accel_odr_closure(f.env, r)
      [] f.fn = "mag_odr" -> mag_odr_closure(f.env, r)
      [] f.fn = "set_accel_sensitivity" -> set_accel_sensitivity_closure(f.env, r)

modify_accel_register(c, reg, f, o1, o2, data) ==
    LET r == read_accel_register(c, reg, o1, data)
    IN IF ~IsOk(r.res) THEN Err(r)
       ELSE LET w == write_accel_register(r.c, reg, CallOnce(f, r.val), o2)
            IN IF ~IsOk(w.res) THEN Err(w) ELSE w

\* Mutation of modify_mag_register: the register is read a second time
\* before the write
modify_mag_register_reread(c, reg, f, o1, o2, data) ==
    LET r0 == read_mag_register(c, reg, o1, data)
    IN IF ~IsOk(r0.res) THEN Err(r0)
       ELSE LET r == read_mag_register(r0.c, reg, o1, data)
                w == write_mag_register(r.c, reg, CallOnce(f, r.val), o2)
            IN IF ~IsOk(w.res) THEN Err(w) ELSE w

modify_mag_register(c, reg, f, o1, o2, data) ==
    LET r == read_mag_register(c, reg, o1, data)
    IN IF ~IsOk(r.res) THEN Err(r)
       ELSE LET w == write_mag_register(r.c, reg, CallOnce(f, r.val), o2)
            IN IF ~IsOk(w.res) THEN Err(w) ELSE w

(***************************************************************************)
(* The public methods (lib.rs, lines 41-110), as functions of the context  *)
(* and of what the transport does.                                         *)
(***************************************************************************)
\* (u16(lo) + (u16(hi) << 8)) as i16
Assemble(lo, hi) == AsI16(Add16(u16(lo), Shl16(u16(hi), 8)))

\* Mutation of new: CRA_REG_M is written before MR_REG_M
new_cra_first(c, o1, o2, o3) ==
    LET w1 == write_accel_register(c, CTRL_REG1_A, 119, o1)
    IN IF ~IsOk(w1.res) THEN Err(w1)
       ELSE LET w2 == write_mag_register(w1.c, CRA_REG_M, Or8(8, Shl8(1, 7)), o2)
            IN IF ~IsOk(w2.res) THEN Err(w2)
               ELSE LET w3 == write_mag_register(w2.c, MR_REG_M, 0, o3)
                    IN IF ~IsOk(w3.res) THEN Err(w3)
                       ELSE [w3 EXCEPT !.val = "driver"]

\* Mutation of new: the result of the first write is dropped (no `?`)
new_first_unchecked(c, o1, o2, o3) ==
    LET w1 == write_accel_register(c, CTRL_REG1_A, 119, o1)
        w2 == write_mag_register(w1.c, MR_REG_M, 0, o2)
    IN IF ~IsOk(w2.res) THEN Err(w2)
       ELSE LET w3 == write_mag_register(w2.c, CRA_REG_M, Or8(8, Shl8(1, 7)), o3)
            IN IF ~IsOk(w3.res) THEN Err(w3)
               ELSE [w3 EXCEPT !.val = "driver"]

new(c, o1, o2, o3) ==
    LET w1 == write_accel_register(c, CTRL_REG1_A, 119, o1)
    IN IF ~IsOk(w1.res) THEN Err(w1)
       ELSE LET w2 == write_mag_register(w1.c, MR_REG_M, 0, o2)
            IN IF ~IsOk(w2.res) THEN Err(w2)
               ELSE LET w3 == write_mag_register(w2.c, CRA_REG_M,
                                                 Or8(8, Shl8(1, 7)), o3)
                    IN IF ~IsOk(w3.res) THEN Err(w3)
                       ELSE [w3 EXCEPT !.val = "driver"]

\* Mutation of accel: the bytes of each axis taken high byte first
accel_high_first(c, o, data) ==
    LET r == read_accel_registers(c, OUT_X_L_A, 6, o, data)
    IN IF ~IsOk(r.res) THEN r
       ELSE [r EXCEPT !.val = [x |-> Assemble(At(r.val, 1), At(r.val, 0)),
                               y |-> Assemble(At(r.val, 3), At(r.val, 2)),
                               z |-> Assemble(At(r.val, 5), At(r.val, 4))]]

accel(c, o, data) ==
    LET r == read_accel_registers(c, OUT_X_L_A, 6, o, data)
    IN IF ~IsOk(r.res) THEN r
       ELSE [r EXCEPT !.val = [x |-> Assemble(At(r.val, 0), At(r.val, 1)),
                               y |-> Assemble(At(r.val, 2), At(r.val, 3)),
                               z |-> Assemble(At(r.val, 4), At(r.val, 5))]]

accel_odr(c, odr, o1, o2, data) ==
    modify_accel_register(c, CTRL_REG1_A, [fn |-> "accel_odr", env |-> odr],
                          o1, o2, data)

\* Mutation of mag: the axes taken in the order X, Y, Z
mag_xyz(c, o, data) ==
    LET r == read_mag_registers(c, OUT_X_H_M, 6, o, data)
    IN IF ~IsOk(r.res) THEN r
       ELSE [r EXCEPT !.val = [x |-> Assemble(At(r.val, 1), At(r.val, 0)),
                               y |-> Assemble(At(r.val, 3), At(r.val, 2)),
                               z |-> Assemble(At(r.val, 5), At(r.val, 4))]]

mag(c, o, data) ==
    LET r == read_mag_registers(c, OUT_X_H_M, 6, o, data)
    IN IF ~IsOk(r.res) THEN r
       ELSE [r EXCEPT !.val = [x |-> Assemble(At(r.val, 1), At(r.val, 0)),
                               y |-> Assemble(At(r.val, 5), At(r.val, 4)),
                               z |-> Assemble(At(r.val, 3), At(r.val, 2))]]

mag_odr(c, odr, o1, o2, data) ==
    modify_mag_register(c, CRA_REG_M, [fn |-> "mag_odr", env |-> odr],
                        o1, o2, data)

\* Mutation of temp: both reads are issued before either result is checked
temp_checks_late(c, o1, o2, dl, dh) ==
    LET temp_out_l == read_mag_register(c, TEMP_OUT_L_M, o1, dl)
        temp_out_h == read_mag_register(temp_out_l.c, TEMP_OUT_H_M, o2, dh)
    IN IF ~IsOk(temp_out_l.res) THEN [temp_out_l EXCEPT !.c = temp_out_h.c]
       ELSE IF ~IsOk(temp_out_h.res) THEN temp_out_h
       ELSE [temp_out_h EXCEPT
               !.val = Sar16(Assemble(temp_out_l.val, temp_out_h.val), 4)]

temp(c, o1, o2, dl, dh) ==
    LET temp_out_l == read_mag_register(c, TEMP_OUT_L_M, o1, dl)
    IN IF ~IsOk(temp_out_l.res) THEN temp_out_l
       ELSE LET temp_out_h == read_mag_register(temp_out_l.c, TEMP_OUT_H_M, o2, dh)
            IN IF ~IsOk(temp_out_h.res) THEN temp_out_h
               ELSE [temp_out_h EXCEPT
                       !.val = Sar16(Assemble(temp_out_l.val, temp_out_h.val), 4)]

set_accel_sensitivity(c, sensitivity, o1, o2, data) ==
    modify_accel_register(c, CTRL_REG4_A,
                          [fn |-> "set_accel_sensitivity", env |-> sensitivity],
                          o1, o2, data)

(***************************************************************************)
(* State.                                                                  *)
(*   state        "Uninitialized" before new, "Ready" once new returned a  *)
(*                driver, "Failed" once new returned an error (no driver)  *)
(*   accelRegs    the accelerometer's configuration registers              *)
(*   magRegs      the magnetometer's configuration registers               *)
(*   bus          the transactions of the last call, in the order issued   *)
(*   ret          what the last call returned                              *)
(*   lastAccelOdr, lastMagOdr                                              *)
(*                history: the argument of the last accel_odr / mag_odr    *)
(*                call that returned Ok, "none" before the first           *)
(***************************************************************************)
VARIABLES state, accelRegs, magRegs, bus, ret, lastAccelOdr, lastMagOdr

vars == <<state, accelRegs, magRegs, bus, ret, lastAccelOdr, lastMagOdr>>

NoCall == [op |-> "none", arg |-> "none", ok |-> TRUE, err |-> 0, val |-> "none"]

\* The context a call starts in
Ctx == [accel |-> accelRegs, mag |-> magRegs, bus |-> <<>>]

\* A call returning r
Return(op, arg, r) ==
    /\ accelRegs' = r.c.accel
    /\ magRegs' = r.c.mag
    /\ bus' = r.c.bus
    /\ ret' = [op |-> op, arg |-> arg, ok |-> IsOk(r.res), err |-> r.res,
               val |-> r.val]

CallNew(o1, o2, o3) ==
    /\ state = "Uninitialized"
    /\ LET r == new(Ctx, o1, o2, o3)
       IN /\ Return("new", "none", r)
          /\ state' = IF IsOk(r.res) THEN "Ready" ELSE "Failed"
    /\ UNCHANGED <<lastAccelOdr, lastMagOdr>>

CallAccel(o, data) ==
    /\ state = "Ready"
    /\ Return("accel", "none", accel(Ctx, o, data))
    /\ UNCHANGED <<state, lastAccelOdr, lastMagOdr>>

CallAccelOdr(odr, o1, o2) ==
    /\ state = "Ready"
    /\ LET r == accel_odr(Ctx, odr, o1, o2, <<0>>)
       IN /\ Return("accel_odr", odr, r)
          /\ lastAccelOdr' = IF IsOk(r.res) THEN odr ELSE lastAccelOdr
    /\ UNCHANGED <<state, lastMagOdr>>

CallMag(o, data) ==
    /\ state = "Ready"
    /\ Return("mag", "none", mag(Ctx, o, data))
    /\ UNCHANGED <<state, lastAccelOdr, lastMagOdr>>

CallMagOdr(odr, o1, o2) ==
    /\ state = "Ready"
    /\ LET r == mag_odr(Ctx, odr, o1, o2, <<0>>)
       IN /\ Return("mag_odr", odr, r)
          /\ lastMagOdr' = IF IsOk(r.res) THEN odr ELSE lastMagOdr
    /\ UNCHANGED <<state, lastAccelOdr>>

CallTemp(o1, o2, l, h) ==
    /\ state = "Ready"
    /\ Return("temp", "none", temp(Ctx, o1, o2, <<l>>, <<h>>))
    /\ UNCHANGED <<state, lastAccelOdr, lastMagOdr>>

CallSetAccelSensitivity(sensitivity, o1, o2) ==
    /\ state = "Ready"
    /\ Return("set_accel_sensitivity", sensitivity,
              set_accel_sensitivity(Ctx, sensitivity, o1, o2, <<0>>))
    /\ UNCHANGED <<state, lastAccelOdr, lastMagOdr>>

(***************************************************************************)
(* Spec: the driver's life, any sequence of calls.  The chip's registers   *)
(* hold anything when the driver is constructed (new resets nothing); the  *)
(* sensor data and the setters' arguments are drawn from a few values.     *)
(***************************************************************************)
PriorBytes == {0, 255}

\* The sensor data the i-th transaction of a call reads: drawn from S when
\* the transaction is reached and succeeds; nothing is read otherwise.
Drawn(o, i, S) ==
    IF \A j \in 1..i : IsOk(o[j]) THEN S ELSE { CHOOSE b \in S : TRUE }

\* No call has been made yet
FirstCall == ret.op = "none"

SampleBursts == { <<1, 0, 2, 0, 3, 0>>, <<255, 255, 0, 128, 255, 127>> }

SampleBytes == {0, 255}

\* The setters' arguments in Spec (SpecSetters draws every value)
SampleAccelOdr == {"Hz1", "Hz50", "Hz400"}
SampleMagOdr == {"Hz0_75", "Hz3", "Hz220"}
SampleSensitivity == {"G1", "G4", "G12"}

Init ==
    /\ state = "Uninitialized"
    /\ accelRegs \in [AccelConfigRegs -> PriorBytes]
    /\ magRegs \in [MagConfigRegs -> PriorBytes]
    /\ bus = <<>>
    /\ ret = NoCall
    /\ lastAccelOdr = "none"
    /\ lastMagOdr = "none"

Next ==
    \/ \E o \in Outcomes(3) : CallNew(o[1], o[2], o[3])
    \/ \E o \in Outcomes(1) : \E data \in Drawn(o, 1, SampleBursts) :
          CallAccel(o[1], data)
    \/ \E odr \in SampleAccelOdr, o \in Outcomes(2) : CallAccelOdr(odr, o[1], o[2])
    \/ \E o \in Outcomes(1) : \E data \in Drawn(o, 1, SampleBursts) :
          CallMag(o[1], data)
    \/ \E odr \in SampleMagOdr, o \in Outcomes(2) : CallMagOdr(odr, o[1], o[2])
    \/ \E o \in Outcomes(2) : \E l \in Drawn(o, 1, SampleBytes),
             h \in Drawn(o, 2, SampleBytes) :
          CallTemp(o[1], o[2], l, h)
    \/ \E s \in SampleSensitivity, o \in Outcomes(2) :
          CallSetAccelSensitivity(s, o[1], o[2])

Spec == Init /\ [][Next]_vars

(***************************************************************************)
(* SpecMeasure: one call of a method on a driver new has just returned,    *)
(* over wide sensor data: every burst over GridBytes, the two bursts of    *)
(* the documentation's examples, bursts in which each axis's byte pair     *)
(* ranges over all 65536 pairs, and every pair of temperature bytes.       *)
(***************************************************************************)
GridBytes == {0, 1, 128, 255}

GridBursts ==
    [1..6 -> GridBytes] \cup { <<1, 0, 2, 0, 3, 0>>, <<0, 1, 0, 3, 0, 2>> }

\* A burst in which every axis's byte pair ranges over all 65536 pairs as
\* b1, b2 range over the bytes
Sweep(b1, b2) == <<b1, b2, b2, b1, 255 - b1, 255 - b2>>

InitMeasure ==
    /\ state = "Ready"
    /\ accelRegs = [r \in AccelConfigRegs |-> IF r = CTRL_REG1_A THEN 119 ELSE 0]
    /\ magRegs = [r \in MagConfigRegs |-> IF r = CRA_REG_M THEN 136 ELSE 0]
    /\ bus = <<>>
    /\ ret = NoCall
    /\ lastAccelOdr = "none"
    /\ lastMagOdr = "none"

NextMeasure ==
    \/ FirstCall /\ \E o \in Outcomes(1) : \E data \in Drawn(o, 1, GridBursts) :
                      CallAccel(o[1], data)
    \/ FirstCall /\ \E b1 \in Byte, b2 \in Byte :
                      CallAccel(0, Sweep(b1, b2))
    \/ FirstCall /\ \E o \in Outcomes(1) : \E data \in Drawn(o, 1, GridBursts) :
                      CallMag(o[1], data)
    \/ FirstCall /\ \E b1 \in Byte, b2 \in Byte :
                      CallMag(0, Sweep(b1, b2))
    \/ FirstCall /\ \E o \in Outcomes(2) : \E l \in Drawn(o, 1, Byte),
                         h \in Drawn(o, 2, Byte) :
                      CallTemp(o[1], o[2], l, h)
    \/ FirstCall /\ \E odr \in AccelOdr, o \in Outcomes(2) :
                      CallAccelOdr(odr, o[1], o[2])
    \/ FirstCall /\ \E odr \in MagOdr, o \in Outcomes(2) :
                      CallMagOdr(odr, o[1], o[2])
    \/ FirstCall /\ \E s \in Sensitivity, o \in Outcomes(2) :
                      CallSetAccelSensitivity(s, o[1], o[2])

SpecMeasure == InitMeasure /\ [][NextMeasure]_vars

(***************************************************************************)
(* SpecSetters: one call of a setter on a Ready driver whose chip holds    *)
(* any byte r in the three registers the setters modify.                   *)
(***************************************************************************)
InitSetters ==
    /\ state = "Ready"
    /\ \E r \in Byte :
          /\ accelRegs = [a \in AccelConfigRegs |-> r]
          /\ magRegs = [a \in MagConfigRegs |-> IF a = CRA_REG_M THEN r ELSE 0]
    /\ bus = <<>>
    /\ ret = NoCall
    /\ lastAccelOdr = "none"
    /\ lastMagOdr = "none"

NextSetters ==
    \/ FirstCall /\ \E odr \in AccelOdr, o \in Outcomes(2) :
                      CallAccelOdr(odr, o[1], o[2])
    \/ FirstCall /\ \E odr \in MagOdr, o \in Outcomes(2) :
                      CallMagOdr(odr, o[1], o[2])
    \/ FirstCall /\ \E s \in Sensitivity, o \in Outcomes(2) :
                      CallSetAccelSensitivity(s, o[1], o[2])

SpecSetters == InitSetters /\ [][NextSetters]_vars

(***************************************************************************)
(* Vocabulary of the properties.  These definitions restate what the       *)
(* specification says in its own terms (bitwise or, two's complement,      *)
(* field codes); they are not taken from the driver's code.                *)
(***************************************************************************)
ReadyOps == {"accel", "mag", "temp", "accel_odr", "mag_odr", "set_accel_sensitivity"}
ModifyOps == {"accel_odr", "mag_odr", "set_accel_sensitivity"}

\* A 16-bit pattern read as a two's-complement signed integer
Signed16(v) == IF v >= 32768 THEN v - 65536 ELSE v
\* lo | hi << 8 on 16 bits
LowOrHigh(lo, hi) == BitOrN(lo, hi * 256, 16)

\* The documented code of each enumeration value
AccelOdrCode ==
    [Hz1 |-> 1, Hz10 |-> 2, Hz25 |-> 3, Hz50 |-> 4, Hz100 |-> 5, Hz200 |-> 6,
     Hz400 |-> 7]
MagOdrCode ==
    [Hz0_75 |-> 0, Hz1_5 |-> 1, Hz3 |-> 2, Hz7_5 |-> 3, Hz15 |-> 4, Hz30 |-> 5,
     Hz75 |-> 6, Hz220 |-> 7]
SensitivityCode == [G1 |-> 0, G2 |-> 1, G4 |-> 2, G12 |-> 3]

\* Bits lo .. lo+width-1 of byte b, and b with those bits cleared
Field(b, lo, width) == (b \div Pow2(lo)) % Pow2(width)
Outside(b, lo, width) == b - Field(b, lo, width) * Pow2(lo)

\* The sub-device, register, field and code of a read-modify-write method
TargetOf(op, arg) ==
    CASE op = "accel_odr" ->
           [addr |-> 25, reg |-> 32, lo |-> 4, width |-> 4, code |-> AccelOdrCode[arg]]
      [] op = "mag_odr" ->
           [addr |-> 30, reg |-> 0, lo |-> 2, width |-> 3, code |-> MagOdrCode[arg]]
      [] op = "set_accel_sensitivity" ->
           [addr |-> 25, reg |-> 35, lo |-> 4, width |-> 2, code |-> SensitivityCode[arg]]

\* The register a sub-address byte names (the accelerometer's bit 7 is a flag)
RegisterOf(t) == IF t.addr = 25 THEN t.out[1] % 128 ELSE t.out[1]

AllOk == \A i \in 1..Len(bus) : IsOk(bus[i].res)

\* The initialization sequence as documented: sub-device and bytes written
InitWrites ==
    << [addr |-> 25, out |-> <<32, 119>>],
       [addr |-> 30, out |-> <<2, 0>>],
       [addr |-> 30, out |-> <<0, 136>>] >>

(***************************************************************************)
(* C1.  Construction issues, in this order and nothing else, the three     *)
(* writes [0x20, 0x77] to the accelerometer (0b0011001), [0x02, 0x00] and  *)
(* [0x00, 0x88] to the magnetometer (0b0011110): never a read, the three   *)
(* of them when none fails; it returns a driver (state Ready) if and only  *)
(* if all three writes succeed.                                            *)
(***************************************************************************)
C1_NewWritesThree ==
    /\ state = "Uninitialized" => bus = <<>>
    /\ ret.op = "new" =>
          /\ Len(bus) \in 1..3
          /\ \A i \in 1..Len(bus) :
                /\ bus[i].kind = "write"
                /\ bus[i].addr = InitWrites[i].addr
                /\ bus[i].out = InitWrites[i].out
          /\ AllOk => Len(bus) = 3
          /\ ret.ok <=> (Len(bus) = 3 /\ AllOk)
          /\ ret.ok <=> ret.val = "driver"
          /\ ret.ok <=> state = "Ready"

C1_Witness ==
    /\ ret.op = "new" /\ ret.ok /\ state = "Ready"
    /\ Len(bus) = 3 /\ AllOk

(***************************************************************************)
(* C2.  When the k-th initialization write fails, new returns exactly the  *)
(* error the transport reported and no driver, the failed write is the     *)
(* last transaction (writes k+1..3 are not attempted, the failed one is    *)
(* not retried), and the registers written by writes 1..k-1 hold the       *)
(* values written (no rollback).                                           *)
(***************************************************************************)
C2_NewFailureStops ==
    \A k \in 1..Len(bus) :
       (ret.op = "new" /\ ~IsOk(bus[k].res)) =>
          /\ k = Len(bus)
          /\ \A i \in 1..(k - 1) : IsOk(bus[i].res)
          /\ ~ret.ok
          /\ ret.err = bus[k].res
          /\ ret.val = "none"
          /\ state = "Failed"
          /\ k > 1 => accelRegs[32] = 119
          /\ k > 2 => magRegs[2] = 0

C2_Witness ==
    /\ ret.op = "new" /\ Len(bus) = 3
    /\ bus[3].res = 2 /\ ret.err = 2 /\ state = "Failed"
    /\ accelRegs[32] = 119 /\ magRegs[2] = 0 /\ magRegs[0] = 255

(***************************************************************************)
(* C3, as stated: in every write-then-read transaction to the              *)
(* accelerometer, bit 7 of the address byte is set if and only if more     *)
(* than one byte is read.                                                  *)
(***************************************************************************)
C3_MultiBitIffBurst ==
    \A i \in 1..Len(bus) :
       (bus[i].kind = "write_read" /\ bus[i].addr = 25) =>
          ((bus[i].out[1] \div 128 = 1) <=> (bus[i].n > 1))

(***************************************************************************)
(* C3, amended: in every write-then-read transaction to the accelerometer  *)
(* bit 7 of the address byte is set, whatever the number of bytes read:    *)
(* on the 6-byte burst of accel and on the single-byte reads of accel_odr  *)
(* and set_accel_sensitivity alike.                                        *)
(***************************************************************************)
C3_MultiBitAlways ==
    \A i \in 1..Len(bus) :
       (bus[i].kind = "write_read" /\ bus[i].addr = 25) =>
          /\ Len(bus[i].out) = 1
          /\ bus[i].out[1] \div 128 = 1
          /\ bus[i].n \in {1, 6}
          /\ bus[i].n = 6 <=> ret.op = "accel"

C3_Witness ==
    /\ ret.op = "set_accel_sensitivity"
    /\ bus[1].kind = "write_read" /\ bus[1].addr = 25
    /\ bus[1].n = 1 /\ bus[1].out = <<163>>

(***************************************************************************)
(* C4.  Each setter writes back the byte read with its field set to the    *)
(* value's documented code and every bit outside the field as read:        *)
(* accel_odr bits 4-7 of CTRL_REG1_A, mag_odr bits 2-4 of CRA_REG_M,       *)
(* set_accel_sensitivity bits 4-5 of CTRL_REG4_A, for every enumeration    *)
(* value and every byte read; the codes of an enumeration are pairwise     *)
(* distinct and fit in the field.                                          *)
(***************************************************************************)
C4_FieldOnly ==
    /\ \A a \in AccelOdr : AccelOdr_as_u8(a) = AccelOdrCode[a] /\ AccelOdrCode[a] \in 0..15
    /\ \A a \in MagOdr : MagOdr_as_u8(a) = MagOdrCode[a] /\ MagOdrCode[a] \in 0..7
    /\ \A a \in Sensitivity :
          Sensitivity_value(a) = SensitivityCode[a] /\ SensitivityCode[a] \in 0..3
    /\ \A a, b \in AccelOdr : a # b => AccelOdr_as_u8(a) # AccelOdr_as_u8(b)
    /\ \A a, b \in MagOdr : a # b => MagOdr_as_u8(a) # MagOdr_as_u8(b)
    /\ \A a, b \in Sensitivity : a # b => Sensitivity_value(a) # Sensitivity_value(b)
    /\ (ret.op \in ModifyOps /\ Len(bus) = 2) =>
          LET t == TargetOf(ret.op, ret.arg)
              r == bus[1].in[1]
              w == bus[2].out[2]
          IN /\ bus[2].out[1] = t.reg
             /\ w \in Byte
             /\ Field(w, t.lo, t.width) = t.code
             /\ Outside(w, t.lo, t.width) = Outside(r, t.lo, t.width)
             /\ ret.ok => (IF t.addr = 25 THEN accelRegs[t.reg] ELSE magRegs[t.reg]) = w

C4_Witness ==
    /\ ret.op = "mag_odr" /\ ret.arg = "Hz15" /\ ret.ok
    /\ bus[1].in = <<255>>
    /\ bus[2].out = <<0, 243>>
    /\ magRegs[0] = 243

(***************************************************************************)
(* C5.  A successful read-modify-write call issues exactly two             *)
(* transactions: first a single-byte write-then-read of the target         *)
(* register, then a write of [register address, transform(byte read)] to   *)
(* the same sub-device and register; the write never precedes the read.    *)
(***************************************************************************)
C5_ReadThenWrite ==
    (ret.op \in ModifyOps /\ ret.ok) =>
       LET t == TargetOf(ret.op, ret.arg)
       IN /\ Len(bus) = 2
          /\ bus[1].kind = "write_read"
          /\ bus[1].addr = t.addr
          /\ Len(bus[1].out) = 1
          /\ RegisterOf(bus[1]) = t.reg
          /\ bus[1].n = 1
          /\ Len(bus[1].in) = 1
          /\ bus[2].kind = "write"
          /\ bus[2].addr = t.addr
          /\ bus[2].out =
                <<t.reg, Outside(bus[1].in[1], t.lo, t.width) + t.code * Pow2(t.lo)>>

C5_Witness ==
    /\ ret.op = "accel_odr" /\ ret.arg = "Hz50" /\ ret.ok
    /\ Len(bus) = 2
    /\ bus[1].in = <<119>>
    /\ bus[2].out = <<32, 71>>

(***************************************************************************)
(* C6.  mag() issues one write-then-read to the magnetometer, address byte *)
(* 0x03 (bit 7 clear), reading 6 bytes b[0..5]; the result is              *)
(* x = b[1] | b[0]<<8, y = b[5] | b[4]<<8, z = b[3] | b[2]<<8 as 16-bit    *)
(* two's-complement integers.  No multi-byte read is issued to the         *)
(* magnetometer from any other register.                                   *)
(***************************************************************************)
C6_MagDecode ==
    /\ ret.op = "mag" =>
          /\ Len(bus) = 1
          /\ bus[1].kind = "write_read"
          /\ bus[1].addr = 30
          /\ bus[1].out = <<3>>
          /\ bus[1].n = 6
          /\ ret.ok =>
                LET b == bus[1].in
                IN /\ Len(b) = 6
                   /\ ret.val.x = Signed16(LowOrHigh(b[2], b[1]))
                   /\ ret.val.y = Signed16(LowOrHigh(b[6], b[5]))
                   /\ ret.val.z = Signed16(LowOrHigh(b[4], b[3]))
                   /\ b = <<0, 1, 0, 3, 0, 2>> => ret.val = [x |-> 1, y |-> 2, z |-> 3]
                   /\ (b[1] = 255 /\ b[2] = 255) => ret.val.x = -1
    /\ \A i \in 1..Len(bus) :
          (bus[i].kind = "write_read" /\ bus[i].addr = 30 /\ bus[i].n > 1) =>
             bus[i].out = <<3>>

C6_Witness ==
    /\ ret.op = "mag" /\ ret.ok
    /\ bus[1].in = <<0, 1, 0, 3, 0, 2>>
    /\ ret.val = [x |-> 1, y |-> 2, z |-> 3]

(***************************************************************************)
(* C7.  accel() issues one write-then-read to the accelerometer, address   *)
(* byte 0x28 | 0x80 = 0xA8, reading 6 bytes b[0..5]; the result is         *)
(* x = b[0] | b[1]<<8, y = b[2] | b[3]<<8, z = b[4] | b[5]<<8 as 16-bit    *)
(* two's-complement integers in -32768..32767, and the addition that       *)
(* combines the two bytes neither carries nor overflows 16 bits.           *)
(***************************************************************************)
C7_AccelDecode ==
    ret.op = "accel" =>
       /\ Len(bus) = 1
       /\ bus[1].kind = "write_read"
       /\ bus[1].addr = 25
       /\ bus[1].out = <<168>>
       /\ bus[1].n = 6
       /\ ret.ok =>
             LET b == bus[1].in
             IN /\ Len(b) = 6
                /\ ret.val.x = Signed16(LowOrHigh(b[1], b[2]))
                /\ ret.val.y = Signed16(LowOrHigh(b[3], b[4]))
                /\ ret.val.z = Signed16(LowOrHigh(b[5], b[6]))
                /\ \A v \in {ret.val.x, ret.val.y, ret.val.z} : v \in -32768..32767
                /\ b = <<1, 0, 2, 0, 3, 0>> => ret.val = [x |-> 1, y |-> 2, z |-> 3]
                /\ \A k \in 0..2 :
                      LET lo == u16(b[2 * k + 1])
                          hi == Shl16(u16(b[2 * k + 2]), 8)
                      IN /\ ~Add16Overflows(lo, hi)
                         /\ BitAndN(lo, hi, 16) = 0

C7_Witness ==
    /\ ret.op = "accel" /\ ret.ok
    /\ bus[1].in = <<1, 0, 255, 255, 0, 128>>
    /\ ret.val = [x |-> 1, y |-> -1, z |-> -32768]

(***************************************************************************)
(* C8.  temp() issues two single-byte write-then-reads to the              *)
(* magnetometer, first of TEMP_OUT_L_M (0x32), then of TEMP_OUT_H_M        *)
(* (0x31), never one 2-byte burst; the result is the two's-complement      *)
(* value of l | h<<8 shifted right arithmetically by 4, that is its floor  *)
(* division by 16: it lies in -2048..2047 and does not depend on the low   *)
(* 4 bits of l.                                                            *)
(***************************************************************************)
C8_TempDecode ==
    ret.op = "temp" =>
       /\ Len(bus) \in 1..2
       /\ \A i \in 1..Len(bus) :
             /\ bus[i].kind = "write_read"
             /\ bus[i].addr = 30
             /\ bus[i].n = 1
             /\ bus[i].out = IF i = 1 THEN <<50>> ELSE <<49>>
       /\ ret.ok =>
             /\ Len(bus) = 2
             /\ LET l == bus[1].in[1]
                    h == bus[2].in[1]
                    v == Signed16(LowOrHigh(l, h))
                IN /\ 16 * ret.val <= v
                   /\ v < 16 * ret.val + 16
                   /\ ret.val \in -2048..2047
                   /\ 16 * ret.val = Signed16(LowOrHigh(l - (l % 16), h))
                   /\ (l = 0 /\ h = 1) => ret.val = 16

C8_Witness ==
    /\ ret.op = "temp" /\ ret.ok
    /\ bus[1].in = <<15>> /\ bus[2].in = <<255>>
    /\ ret.val = -16

\* The transactions a Ready-state method issues when none fails
TransactionsOf(op) == IF op \in {"accel", "mag"} THEN 1 ELSE 2

\* State part of C9: the transactions and the result of the last call
C9_Calls ==
    ret.op \in ReadyOps =>
       /\ Len(bus) \in 1..TransactionsOf(ret.op)
       /\ \A i \in 1..(Len(bus) - 1) : IsOk(bus[i].res)
       /\ ~AllOk =>
             /\ ~ret.ok
             /\ ret.err = bus[Len(bus)].res
             /\ ret.val = "none"
       /\ AllOk =>
             /\ ret.ok
             /\ Len(bus) = TransactionsOf(ret.op)
       /\ (ret.op \in ModifyOps \cup {"temp"} /\ ~IsOk(bus[1].res)) => Len(bus) = 1

\* Step part of C9: a read-modify-write whose read fails
C9_ReadFailureWritesNothing ==
    (ret'.op \in ModifyOps /\ ~IsOk(bus'[1].res)) =>
       /\ \A i \in 1..Len(bus') : bus'[i].kind # "write"
       /\ accelRegs' = accelRegs
       /\ magRegs' = magRegs

(***************************************************************************)
(* C9.  In every call of a Ready-state method, a transaction that fails is *)
(* the last one issued (no retry, none of the later ones), the call        *)
(* returns exactly its error and no value; a call in which no transaction  *)
(* fails issues all its transactions and returns Ok.  When the read of a   *)
(* read-modify-write fails no write is issued and the chip's registers     *)
(* keep their values; when the first read of temp fails the second is not  *)
(* issued.                                                                 *)
(***************************************************************************)
C9_ErrorsPropagate == [](C9_Calls) /\ [][C9_ReadFailureWritesNothing]_vars

C9_Witness ==
    /\ ret.op = "temp" /\ ~ret.ok /\ ret.err = 2
    /\ Len(bus) = 2 /\ IsOk(bus[1].res) /\ bus[2].res = 2

\* State part of C10: the configuration registers of a Ready driver's chip
C10_Config ==
    state = "Ready" =>
       /\ Field(magRegs[0], 7, 1) = 1
       /\ Field(magRegs[0], 0, 2) = 0
       /\ Field(magRegs[0], 5, 2) = 0
       /\ Field(accelRegs[32], 0, 4) = 7
       /\ magRegs[2] = 0
       /\ Field(accelRegs[32], 4, 4) =
             IF lastAccelOdr = "none" THEN 7 ELSE AccelOdrCode[lastAccelOdr]
       /\ Field(magRegs[0], 2, 3) =
             IF lastMagOdr = "none" THEN 2 ELSE MagOdrCode[lastMagOdr]

\* Step part of C10: a setter repeated with the value last applied
C10_RepeatKeeps ==
    /\ (ret'.op = "accel_odr" /\ ret'.ok /\ ret'.arg = lastAccelOdr) =>
          accelRegs' = accelRegs
    /\ (ret'.op = "mag_odr" /\ ret'.ok /\ ret'.arg = lastMagOdr) =>
          magRegs' = magRegs

(***************************************************************************)
(* C10.  Once new has succeeded, whatever calls follow and whichever of    *)
(* their transactions fail: CRA_REG_M has bit 7 set and bits 0-1 and 5-6   *)
(* clear, CTRL_REG1_A has bits 0-3 = 0b0111, MR_REG_M = 0x00; bits 4-7 of  *)
(* CTRL_REG1_A are the code of the last accel_odr that returned Ok (0b0111 *)
(* if none) and bits 2-4 of CRA_REG_M the code of the last mag_odr that    *)
(* returned Ok (0b010 if none); a setter repeated with the value last      *)
(* applied leaves its register as it is.                                   *)
(***************************************************************************)
C10_ConfigKept == [](C10_Config) /\ [][C10_RepeatKeeps]_vars

C10_Witness ==
    /\ state = "Ready"
    /\ lastAccelOdr = "Hz1" /\ lastMagOdr = "Hz220"
    /\ accelRegs[32] = 23 /\ magRegs[0] = 156
    /\ ret.op = "mag_odr" /\ ~ret.ok

====
